---------------------------- MODULE Spec2Model ----------------------------
(***************************************************************************)
(* Padel "Americano" tournament engine (app/americano/engine.py), its JSON *)
(* store (app/americano/store.py) and the HTTP handlers that drive it      *)
(* (app/main.py).                                                          *)
(*                                                                         *)
(* Strings (player names, score texts, pair keys) are sequences of code    *)
(* points, so that str.lower(), the code-point order of <= / sorted() and  *)
(* the "a|b" pair key are computed the way Python computes them.           *)
(* Optional[int] scores use NoScore for None.  The float penalty of        *)
(* _split_score is kept exactly by scaling it with PenaltyScale (all its   *)
(* terms are multiples of 0.01 and far below 2^53).                        *)
(***************************************************************************)
EXTENDS Integers, Sequences, FiniteSets, TLC

VARIABLES
    am,        \* the in-memory engine (class Americano), a record of its fields
    store,     \* the files of the store: tournament id -> the dict Store.save wrote
    last,      \* the last call: its name, arguments and result or error
    calls,     \* per round, how many times record_results was invoked on it
    stale,     \* some record_results call was made on a round that was not current
    disciplined, \* every round so far was recorded once, fully, before the next one
    handlers   \* the HTTP requests in flight or answered: each handler's position,
               \* the engine it loaded and its response

vars == <<am, store, last, calls, stale, disciplined, handlers>>

---------------------------------------------------------------------------
(* Bounds of the model *)

MaxRounds == 3      \* next_round calls per tournament
MaxRecords == 2     \* record_results calls per tournament (engine level)
MaxHistory == 3     \* calls that build the balancer's pairing history
MaxSeason == 8      \* rounds of a tournament played round after round
MaxRequests == 3    \* HTTP requests sent to one tournament, possibly at the same time

---------------------------------------------------------------------------
(* Strings *)

Bar == 124          \* '|'
NoScore == -1       \* None of Optional[int]
LastRoundInit == -10
PairLastDefault == -99
PenaltyScale == 100
W_PARTNER == 1000           \* 10.0 * PenaltyScale
W_PARTNER_RECENT == 500     \* 5.0  * PenaltyScale
W_OPPONENT == 100           \* 1.0  * PenaltyScale
W_OPPONENT_RECENT == 50     \* 0.5  * PenaltyScale
Window == 6

\* str.lower() on one code point (ASCII)
LowerChar(c) == IF c \in 65..90 THEN c + 32 ELSE c

\* p.lower()
Lower(s) == [i \in 1..Len(s) |-> LowerChar(s[i])]

\* Python's s < t on str: lexicographic on code points, a proper prefix is smaller
RECURSIVE StrLessFrom(_, _, _)
StrLessFrom(s, t, i) ==
    IF i > Len(t) THEN FALSE
    ELSE IF i > Len(s) THEN TRUE
    ELSE IF s[i] < t[i] THEN TRUE
    ELSE IF s[i] > t[i] THEN FALSE
    ELSE StrLessFrom(s, t, i + 1)

StrLess(s, t) == StrLessFrom(s, t, 1)

StrLeq(s, t) == s = t \/ StrLess(s, t)

\* Python's tuple < on (int, ..., int, str) keys of equal length
RECURSIVE KeyLessFrom(_, _, _)
KeyLessFrom(k1, k2, i) ==
    IF i = Len(k1) THEN StrLess(k1[i], k2[i])
    ELSE IF k1[i] < k2[i] THEN TRUE
    ELSE IF k1[i] > k2[i] THEN FALSE
    ELSE KeyLessFrom(k1, k2, i + 1)

KeyLess(k1, k2) == KeyLessFrom(k1, k2, 1)

Range(s) == {s[i] : i \in 1..Len(s)}

\* sorted(): a stable sort.  Each entry is <<key, item>>; x goes after every
\* entry whose key is not greater.
RECURSIVE InsertStable(_, _)
InsertStable(x, sorted) ==
    IF sorted = <<>> THEN <<x>>
    ELSE IF KeyLess(x[1], Head(sorted)[1]) THEN <<x>> \o sorted
    ELSE <<Head(sorted)>> \o InsertStable(x, Tail(sorted))

RECURSIVE SortedFrom(_, _, _)
SortedFrom(s, i, acc) ==
    IF i > Len(s) THEN acc
    ELSE SortedFrom(s, i + 1, InsertStable(s[i], acc))

\* sorted(items, key=...): keyed is the sequence of <<key(item), item>>
SortedByKey(keyed) ==
    LET r == SortedFrom(keyed, 1, <<>>)
    IN  [i \in 1..Len(r) |-> r[i][2]]

\* dict.get(k, default)
Get(d, k, default) == IF k \in DOMAIN d THEN d[k] ELSE default

\* d[k] = v on a dict
Put(d, k, v) == [x \in DOMAIN d \cup {k} |-> IF x = k THEN v ELSE d[x]]

EmptyDict == [x \in {} |-> 0]

---------------------------------------------------------------------------
(* Rosters *)

Alice == <<65, 108, 105, 99, 101>>
Bob == <<66, 111, 98>>
Carol == <<67, 97, 114, 111, 108>>
Dave == <<68, 97, 118, 101>>
Erin == <<69, 114, 105, 110>>
Frank == <<70, 114, 97, 110, 107>>
Gina == <<71, 105, 110, 97>>
Hank == <<72, 97, 110, 107>>
\* names that differ from their lower() and names that hold the key separator
al == <<97, 108>>
bob == <<98, 111, 98>>
cy == <<99, 121>>
Di == <<68, 105>>
n_a == <<97>>
n_a_b == <<97, 124, 98>>
n_b_c == <<98, 124, 99>>
n_c == <<99>>
Ivan == <<73, 118, 97, 110>>

\* (roster, courts) of the tournaments explored
Configs ==
    { [players |-> <<Alice, Bob, Carol, Dave>>, courts |-> 1],
      [players |-> <<Alice, Bob, Carol, Dave, Erin, Frank>>, courts |-> 1],
      [players |-> <<Hank, Gina, Frank, Erin, Dave, Carol, Bob, Alice>>, courts |-> 2],
      [players |-> <<cy, bob, al, Bob, Di>>, courts |-> 2],
      [players |-> <<n_a, n_a_b, n_b_c, n_c>>, courts |-> 1] }

---------------------------------------------------------------------------
(* class Americano *)

\* Americano.__init__ (after its two checks)
NewAmericano(players, courts) ==
    [ players |-> players,
      courts |-> courts,
      round_idx |-> 0,
      matches_played |-> [p \in Range(players) |-> 0],
      games_for |-> [p \in Range(players) |-> 0],
      games_against |-> [p \in Range(players) |-> 0],
      points |-> [p \in Range(players) |-> 0],
      last_round |-> [p \in Range(players) |-> LastRoundInit],
      partner_count |-> EmptyDict,
      partner_last_round |-> EmptyDict,
      opponent_count |-> EmptyDict,
      opponent_last_round |-> EmptyDict,
      rounds |-> <<>> ]

\* the roster check is missing
InitFailsCourtsOnly(players, courts) == courts < 1

\* the checks of Americano.__init__
InitFails(players, courts) == courts < 1 \/ Len(players) < 4

\* dataclass Game
Game(court, teamA, teamB) ==
    [court |-> court, teamA |-> teamA, teamB |-> teamB,
     scoreA |-> NoScore, scoreB |-> NoScore]

\* Americano._ordered_team
OrderedTeam(t) == IF StrLeq(t[1], t[2]) THEN <<t[1], t[2]>> ELSE <<t[2], t[1]>>

\* Americano._pair_key
PairKey(p, q) ==
    IF StrLeq(p, q) THEN p \o <<Bar>> \o q ELSE q \o <<Bar>> \o p

Bool01(b) == IF b THEN 1 ELSE 0

\* Americano._split_score, times PenaltyScale
SplitScore(e, t1, t2) ==
    LET pk1 == PairKey(t1[1], t1[2])
        pk2 == PairKey(t2[1], t2[2])
        partner_pen == Get(e.partner_count, pk1, 0) + Get(e.partner_count, pk2, 0)
        partner_recent ==
            Bool01(Get(e.partner_last_round, pk1, PairLastDefault) = e.round_idx - 1)
            + Bool01(Get(e.partner_last_round, pk2, PairLastDefault) = e.round_idx - 1)
        cross == << PairKey(t1[1], t2[1]), PairKey(t1[1], t2[2]),
                    PairKey(t1[2], t2[1]), PairKey(t1[2], t2[2]) >>
        opponent_pen ==
            Get(e.opponent_count, cross[1], 0) + Get(e.opponent_count, cross[2], 0)
            + Get(e.opponent_count, cross[3], 0) + Get(e.opponent_count, cross[4], 0)
        opponent_recent ==
            Bool01(Get(e.opponent_last_round, cross[1], PairLastDefault) = e.round_idx - 1)
            + Bool01(Get(e.opponent_last_round, cross[2], PairLastDefault) = e.round_idx - 1)
            + Bool01(Get(e.opponent_last_round, cross[3], PairLastDefault) = e.round_idx - 1)
            + Bool01(Get(e.opponent_last_round, cross[4], PairLastDefault) = e.round_idx - 1)
        fairness ==
            e.matches_played[t1[1]] + e.matches_played[t1[2]]
            + e.matches_played[t2[1]] + e.matches_played[t2[2]]
    IN  W_PARTNER * partner_pen + W_PARTNER_RECENT * partner_recent
        + W_OPPONENT * opponent_pen + W_OPPONENT_RECENT * opponent_recent + fairness

\* splits of Americano._best_split_of_four, in its order
Splits(four) ==
    << << <<four[1], four[2]>>, <<four[3], four[4]>> >>,
       << <<four[1], four[3]>>, <<four[2], four[4]>> >>,
       << <<four[1], four[4]>>, <<four[2], four[3]>> >> >>

\* a tie replaces the best split found so far
BetterOrEqual(s, best_score) == s <= best_score

\* the comparison of the loop of _best_split_of_four: s < best_score
Better(s, best_score) == s < best_score

\* the loop of Americano._best_split_of_four; best_score = -1 stands for inf
RECURSIVE BestSplitLoop(_, _, _, _, _)
BestSplitLoop(e, splits, i, best, best_score) ==
    IF i > Len(splits) THEN best
    ELSE LET s == SplitScore(e, splits[i][1], splits[i][2])
         IN  IF best_score = -1 \/ Better(s, best_score)
             THEN BestSplitLoop(e, splits, i + 1,
                                <<OrderedTeam(splits[i][1]), OrderedTeam(splits[i][2])>>, s)
             ELSE BestSplitLoop(e, splits, i + 1, best, best_score)

\* Americano._best_split_of_four
BestSplitOfFour(e, four) == BestSplitLoop(e, Splits(four), 1, <<>>, -1)

\* the players who played most come first
PriorityKeyMostPlayedFirst(e, p) ==
    <<0 - e.matches_played[p], e.last_round[p], Lower(p)>>

\* matches_played and last_round are left out of the key
PriorityKeyByNameOnly(e, p) == <<0, 0, Lower(p)>>

\* the key of sorted() in Americano.next_round
PriorityKey(e, p) == <<e.matches_played[p], e.last_round[p], Lower(p)>>

\* sorted_players of Americano.next_round
SortedPlayers(e) ==
    SortedByKey([i \in 1..Len(e.players) |-> <<PriorityKey(e, e.players[i]), e.players[i]>>])

\* max_games of Americano.next_round
MaxGames(e) ==
    LET byRoster == Len(e.players) \div 4
    IN  IF e.courts < byRoster THEN e.courts ELSE byRoster

\* the pool is not filtered by the players already selected
PickFourIgnoringSelected(sorted_players, selected) ==
    IF Len(sorted_players) < 4 THEN <<>> ELSE SubSeq(sorted_players, 1, 4)

\* the last four of the window are taken: block[-4:]
PickFourLastOfWindow(sorted_players, selected) ==
    LET pool == SelectSeq(sorted_players, LAMBDA p : p \notin Range(selected))
        block == IF Len(pool) >= Window THEN SubSeq(pool, 1, Window) ELSE pool
    IN  IF Len(pool) < 4 THEN <<>> ELSE SubSeq(block, Len(block) - 3, Len(block))

\* pick_four of Americano.next_round: <<>> stands for None
PickFour(sorted_players, selected) ==
    LET pool == SelectSeq(sorted_players, LAMBDA p : p \notin Range(selected))
        block == IF Len(pool) >= Window THEN SubSeq(pool, 1, Window) ELSE pool
    IN  IF Len(pool) < 4 THEN <<>> ELSE SubSeq(block, 1, 4)

\* the court loop of Americano.next_round; e already has the new round_idx
RECURSIVE CourtLoop(_, _, _, _, _)
CourtLoop(e, sorted_players, c, selected, games) ==
    IF c > MaxGames(e) THEN [selected |-> selected, games |-> games]
    ELSE LET four == PickFour(sorted_players, selected)
         IN  IF four = <<>> THEN [selected |-> selected, games |-> games]
             ELSE LET split == BestSplitOfFour(e, four)
                  IN  CourtLoop(e, sorted_players, c + 1, selected \o four,
                                Append(games, Game(c, split[1], split[2])))

\* matches_played is counted when the round is scheduled
CommitRoundCountingMatches(e, selected, games) ==
    [e EXCEPT
        !.matches_played = [p \in DOMAIN e.matches_played |->
                               IF p \in Range(selected) THEN e.matches_played[p] + 1
                               ELSE e.matches_played[p]],
        !.last_round = [p \in DOMAIN e.last_round |->
                           IF p \in Range(selected) THEN e.round_idx
                           ELSE e.last_round[p]],
        !.rounds = Append(e.rounds, games)]

\* the new round replaces the history instead of being appended to it
CommitRoundReplacingHistory(e, selected, games) ==
    [e EXCEPT
        !.last_round = [p \in DOMAIN e.last_round |->
                           IF p \in Range(selected) THEN e.round_idx
                           ELSE e.last_round[p]],
        !.rounds = <<games>>]

\* last_round is set for every player of the roster, selected or not
CommitRoundStampingEveryone(e, selected, games) ==
    [e EXCEPT
        !.last_round = [p \in DOMAIN e.last_round |-> e.round_idx],
        !.rounds = Append(e.rounds, games)]

\* the end of Americano.next_round: last_round of the selected, rounds.append
CommitRound(e, selected, games) ==
    [e EXCEPT
        !.last_round = [p \in DOMAIN e.last_round |->
                           IF p \in Range(selected) THEN e.round_idx
                           ELSE e.last_round[p]],
        !.rounds = Append(e.rounds, games)]

\* Americano.next_round: the engine after the call, the games it returns and
\* the error it raises (the raise at max_games = 0 comes after round_idx += 1)
NextRoundCall(e) ==
    LET e1 == [e EXCEPT !.round_idx = e.round_idx + 1]
        res == CourtLoop(e1, SortedPlayers(e1), 1, <<>>, <<>>)
    IN  IF MaxGames(e1) = 0
        THEN [am |-> e1, err |-> "RuntimeError", games |-> <<>>]
        ELSE [am |-> CommitRound(e1, res.selected, res.games),
              err |-> "none",
              games |-> res.games]

---------------------------------------------------------------------------
(* Scoring *)

IsSpace(c) == c \in {32, 9, 10, 11, 12, 13}
IsDigit(c) == c \in 48..57

\* the end of a run of \s starting at i
RECURSIVE SkipSpaces(_, _)
SkipSpaces(s, i) ==
    IF i <= Len(s) /\ IsSpace(s[i]) THEN SkipSpaces(s, i + 1) ELSE i

\* the end of a run of \d starting at i
RECURSIVE SkipDigits(_, _)
SkipDigits(s, i) ==
    IF i <= Len(s) /\ IsDigit(s[i]) THEN SkipDigits(s, i + 1) ELSE i

\* int() of a run of decimal digits
RECURSIVE IntOf(_)
IntOf(ds) ==
    IF ds = <<>> THEN 0
    ELSE 10 * IntOf(SubSeq(ds, 1, Len(ds) - 1)) + (ds[Len(ds)] - 48)

\* Americano._parse_score: <<a, b>>, or <<>> when the pattern
\* ^\s*(\d+)\s*[-:]\s*(\d+)\s*$ does not match (ValueError)
ParseScore(s) ==
    LET i1 == SkipSpaces(s, 1)
        i2 == SkipDigits(s, i1)
        i3 == SkipSpaces(s, i2)
        i4 == SkipSpaces(s, i3 + 1)
        i5 == SkipDigits(s, i4)
        i6 == SkipSpaces(s, i5)
    IN  IF /\ i2 > i1
           /\ i3 <= Len(s)
           /\ s[i3] \in {45, 58}
           /\ i5 > i4
           /\ i6 = Len(s) + 1
        THEN <<IntOf(SubSeq(s, i1, i2 - 1)), IntOf(SubSeq(s, i4, i5 - 1))>>
        ELSE <<>>

\* d[k] += n
Inc(d, k, n) == [d EXCEPT ![k] = @ + n]

\* d[k] = d.get(k, 0) + 1
Bump(d, k) == Put(d, k, Get(d, k, 0) + 1)

\* the per-player part of Americano._apply_game for one player
Tally(e, p, for, against) ==
    [e EXCEPT !.matches_played = Inc(@, p, 1),
              !.games_for = Inc(@, p, for),
              !.games_against = Inc(@, p, against),
              !.points = Inc(@, p, for)]

\* the partner part of Americano._apply_game for one team
Partnered(e, t) ==
    LET pk == PairKey(t[1], t[2])
    IN  [e EXCEPT !.partner_count = Bump(@, pk)]

PartneredLast(e, t) ==
    [e EXCEPT !.partner_last_round = Put(@, PairKey(t[1], t[2]), e.round_idx)]

\* the opponent part of Americano._apply_game for one cross pairing
Opposed(e, x, y) ==
    LET kk == PairKey(x, y)
    IN  [e EXCEPT !.opponent_count = Bump(@, kk),
                  !.opponent_last_round = Put(@, kk, e.round_idx)]

\* int(g.scoreA or 0)
ScoreOrZero(v) == IF v = NoScore THEN 0 ELSE v

\* the loop over teamB is missing
ApplyGameTeamAOnly(e, g) ==
    LET a == ScoreOrZero(g.scoreA)
        b == ScoreOrZero(g.scoreB)
        e1 == Tally(Tally(e, g.teamA[1], a, b), g.teamA[2], a, b)
        e3 == PartneredLast(PartneredLast(Partnered(Partnered(e1, g.teamA), g.teamB),
                                          g.teamA), g.teamB)
    IN  Opposed(Opposed(Opposed(Opposed(e3, g.teamA[1], g.teamB[1]),
                                g.teamA[1], g.teamB[2]),
                        g.teamA[2], g.teamB[1]),
                g.teamA[2], g.teamB[2])

\* Americano._apply_game
ApplyGame(e, g) ==
    LET a == ScoreOrZero(g.scoreA)
        b == ScoreOrZero(g.scoreB)
        e1 == Tally(Tally(e, g.teamA[1], a, b), g.teamA[2], a, b)
        e2 == Tally(Tally(e1, g.teamB[1], b, a), g.teamB[2], b, a)
        e3 == PartneredLast(PartneredLast(Partnered(Partnered(e2, g.teamA), g.teamB),
                                          g.teamA), g.teamB)
    IN  Opposed(Opposed(Opposed(Opposed(e3, g.teamA[1], g.teamB[1]),
                                g.teamA[1], g.teamB[2]),
                        g.teamA[2], g.teamB[1]),
                g.teamA[2], g.teamB[2])

\* the two ValueErrors of record_results
LengthMismatch == "ValueError: scores length must match number of games"
InvalidScore == "ValueError: Invalid score"

\* the loop of Americano.record_results over the games of round r: a score that
\* does not parse raises after the games before it were scored and applied
RECURSIVE RecordLoop(_, _, _, _)
RecordLoop(e, r, scores, i) ==
    IF i > Len(scores) THEN [am |-> e, err |-> "none"]
    ELSE LET ab == ParseScore(scores[i])
         IN  IF ab = <<>> THEN [am |-> e, err |-> InvalidScore]
             ELSE LET e1 == [e EXCEPT !.rounds[r][i].scoreA = ab[1],
                                      !.rounds[r][i].scoreB = ab[2]]
                  IN  RecordLoop(ApplyGame(e1, e1.rounds[r][i]), r, scores, i + 1)

\* Americano.record_results(self.rounds[r - 1], scores)
RecordResultsCall(e, r, scores) ==
    IF Len(e.rounds[r]) # Len(scores) THEN [am |-> e, err |-> LengthMismatch]
    ELSE RecordLoop(e, r, scores, 1)

---------------------------------------------------------------------------
(* Leaderboard *)

\* the player with more matches comes first
LeaderKeyMoreMatchesFirst(e, p) ==
    << 0 - e.points[p], 0 - (e.games_for[p] - e.games_against[p]),
       0 - e.matches_played[p], Lower(p) >>

\* key(p) of Americano.leaderboard
LeaderKey(e, p) ==
    << 0 - e.points[p], 0 - (e.games_for[p] - e.games_against[p]),
       e.matches_played[p], Lower(p) >>

\* Americano.leaderboard
Leaderboard(e) ==
    LET order == SortedByKey([i \in 1..Len(e.players) |->
                                <<LeaderKey(e, e.players[i]), e.players[i]>>])
    IN  [i \in 1..Len(order) |->
            << order[i], e.points[order[i]], e.matches_played[order[i]],
               e.games_for[order[i]], e.games_against[order[i]] >>]

---------------------------------------------------------------------------
(* Persistence *)

\* the data directory with no file in it
NoFile == [t \in {} |-> 0]

\* the id create_tournament gave the tournament
Tid == "tid"

\* game_to_dict of Americano.to_dict
GameToDict(g) ==
    [court |-> g.court, teamA |-> g.teamA, teamB |-> g.teamB,
     scoreA |-> g.scoreA, scoreB |-> g.scoreB]

\* Americano.to_dict
ToDict(e) ==
    [ players |-> e.players,
      courts |-> e.courts,
      round_idx |-> e.round_idx,
      matches_played |-> e.matches_played,
      games_for |-> e.games_for,
      games_against |-> e.games_against,
      points |-> e.points,
      last_round |-> e.last_round,
      partner_count |-> e.partner_count,
      partner_last_round |-> e.partner_last_round,
      opponent_count |-> e.opponent_count,
      opponent_last_round |-> e.opponent_last_round,
      rounds |-> [r \in 1..Len(e.rounds) |->
                    [i \in 1..Len(e.rounds[r]) |-> GameToDict(e.rounds[r][i])]] ]

\* scoreB is read from "scoreA"
GameFromDictScoreATwice(g) ==
    [court |-> g.court,
     teamA |-> <<g.teamA[1], g.teamA[2]>>,
     teamB |-> <<g.teamB[1], g.teamB[2]>>,
     scoreA |-> g.scoreA,
     scoreB |-> g.scoreA]

\* the Game(...) built per stored game in Americano.from_dict
GameFromDict(g) ==
    [court |-> g.court,
     teamA |-> <<g.teamA[1], g.teamA[2]>>,
     teamB |-> <<g.teamB[1], g.teamB[2]>>,
     scoreA |-> g.scoreA,
     scoreB |-> g.scoreB]

\* {k: int(v) for k, v in d.items()}
CopyDict(d) == [k \in DOMAIN d |-> d[k]]

\* Americano.from_dict: the constructor, then every field overwritten
FromDict(d) ==
    [ NewAmericano(d.players, d.courts) EXCEPT
        !.round_idx = d.round_idx,
        !.matches_played = CopyDict(d.matches_played),
        !.games_for = CopyDict(d.games_for),
        !.games_against = CopyDict(d.games_against),
        !.points = CopyDict(d.points),
        !.last_round = CopyDict(d.last_round),
        !.partner_count = CopyDict(d.partner_count),
        !.partner_last_round = CopyDict(d.partner_last_round),
        !.opponent_count = CopyDict(d.opponent_count),
        !.opponent_last_round = CopyDict(d.opponent_last_round),
        !.rounds = [r \in 1..Len(d.rounds) |->
                      [i \in 1..Len(d.rounds[r]) |-> GameFromDict(d.rounds[r][i])]] ]

\* The mutable objects an engine or a snapshot dict holds, as object
\* identities <<allocating call, field>>.
ContainerFields ==
    { "players", "matches_played", "games_for", "games_against", "points",
      "last_round", "partner_count", "partner_last_round", "opponent_count",
      "opponent_last_round", "rounds", "round lists", "games" }

\* the objects of an engine built by __init__ and grown by next_round
OwnObjects(owner) == [f \in ContainerFields |-> <<owner, f>>]

\* Americano.to_dict: lists and dicts of the engine are put in the result as
\* they are; only the rounds are rebuilt (list comprehensions, game_to_dict)
ToDictObjects(objs) ==
    [f \in ContainerFields |->
        IF f \in {"rounds", "round lists", "games"} THEN <<"to_dict", f>> ELSE objs[f]]

\* Americano.from_dict: players[:] in __init__, a dict comprehension per map,
\* a new list per round and a new Game per stored game
FromDictObjects(dobjs) == [f \in ContainerFields |-> <<"from_dict", f>>]

---------------------------------------------------------------------------
(* Inputs *)

\* "6-3", " 0 : 0 "
ValidTexts ==
    { <<54, 45, 51>>, <<32, 48, 32, 58, 32, 48, 32>> }

\* "six-3", "-1-3"
InvalidTexts ==
    { <<115, 105, 120, 45, 51>>, <<45, 49, 45, 51>> }

ScoreTexts == ValidTexts \cup InvalidTexts

\* the score lists a caller may pass: none, one or two texts
ScoreLists ==
    {<<>>} \cup {<<s>> : s \in ScoreTexts}
           \cup {<<s, t>> : s \in ScoreTexts, t \in ScoreTexts}

RECURSIVE SumSeq(_)
SumSeq(s) == IF s = <<>> THEN 0 ELSE Head(s) + SumSeq(Tail(s))

---------------------------------------------------------------------------
(* The engine driven directly: Americano(...), next_round, record_results, *)
(* leaderboard, to_dict / from_dict                                        *)

Init ==
    /\ \E cfg \in Configs :
          /\ ~InitFails(cfg.players, cfg.courts)
          /\ am = NewAmericano(cfg.players, cfg.courts)
    /\ store = NoFile
    /\ last = [op |-> "new"]
    /\ calls = <<>>
    /\ stale = FALSE
    /\ disciplined = TRUE
    /\ handlers = <<>>

\* am.next_round()
NextRound ==
    /\ am.round_idx < MaxRounds
    /\ \E res \in {NextRoundCall(am)} :
          /\ am' = res.am
          /\ last' = [op |-> "next_round", err |-> res.err, games |-> res.games]
    /\ calls' = Append(calls, 0)
    /\ disciplined' = (disciplined /\ (am.round_idx = 0 \/ calls[am.round_idx] = 1))
    /\ UNCHANGED <<store, stale, handlers>>

\* am.record_results(am.rounds[r - 1], scores)
RecordResults(r, scores) ==
    /\ SumSeq(calls) < MaxRecords
    /\ \E res \in {RecordResultsCall(am, r, scores)} :
          /\ am' = res.am
          /\ last' = [op |-> "record_results", round |-> r, err |-> res.err]
          /\ disciplined' =
                (disciplined /\ r = am.round_idx /\ calls[r] = 0 /\ res.err = "none")
    /\ calls' = [calls EXCEPT ![r] = @ + 1]
    /\ stale' = (stale \/ r # am.round_idx)
    /\ UNCHANGED <<store, handlers>>

\* am.leaderboard()
CallLeaderboard ==
    /\ last' = [op |-> "leaderboard", rows |-> Leaderboard(am)]
    /\ UNCHANGED <<am, store, calls, stale, disciplined, handlers>>

\* Americano.from_dict(am.to_dict())
Snapshot ==
    /\ last' = [op |-> "from_dict",
                engine |-> FromDict(ToDict(am)),
                objects |-> FromDictObjects(ToDictObjects(OwnObjects("am")))]
    /\ UNCHANGED <<am, store, calls, stale, disciplined, handlers>>

Next ==
    \/ NextRound
    \/ \E r \in 1..Len(am.rounds), scores \in ScoreLists : RecordResults(r, scores)

Spec == Init /\ [][Next]_vars

\* The read-only calls change nothing but `last`; each is explored in a
\* specification of its own, next to the calls that change the engine.
NextLeaderboard == Next \/ CallLeaderboard

SpecLeaderboard == Init /\ [][NextLeaderboard]_vars

NextSnapshot == Next \/ Snapshot

SpecSnapshot == Init /\ [][NextSnapshot]_vars

\* am = Americano.from_dict(am.to_dict()): the engine is replaced by the one
\* restored from its own snapshot
Restore ==
    /\ am' = FromDict(ToDict(am))
    /\ last' = [op |-> "restore"]
    /\ UNCHANGED <<store, calls, stale, disciplined, handlers>>

\* the tournaments on which every operation is explored: one game a round
EngineConfigs ==
    { [players |-> <<Alice, Bob, Carol, Dave>>, courts |-> 1],
      [players |-> <<Alice, Bob, Carol, Dave, Erin, Frank>>, courts |-> 1],
      [players |-> <<cy, bob, al, Bob, Di>>, courts |-> 2],
      [players |-> <<n_a, n_a_b, n_b_c, n_c>>, courts |-> 1] }

InitEngine ==
    /\ \E cfg \in EngineConfigs :
          /\ ~InitFails(cfg.players, cfg.courts)
          /\ am = NewAmericano(cfg.players, cfg.courts)
    /\ store = NoFile
    /\ last = [op |-> "new"]
    /\ calls = <<>>
    /\ stale = FALSE
    /\ disciplined = TRUE
    /\ handlers = <<>>

\* every operation of the engine, in any order
NextEngine == Next \/ CallLeaderboard \/ Snapshot \/ Restore

SpecEngine == InitEngine /\ [][NextEngine]_vars

---------------------------------------------------------------------------
(* A tournament played as meant: every round is recorded, once and in      *)
(* full, before the next one is scheduled.                                 *)

SeasonRosters ==
    { <<Alice, Bob, Carol, Dave>>,
      <<cy, Bob, al, Di>>,
      <<n_a, n_a_b, n_b_c, n_c>>,
      <<Alice, Bob, Carol, Dave, Erin>>,
      <<Alice, Bob, Carol, Dave, Erin, Frank>>,
      <<Gina, Frank, Erin, Dave, Carol, Bob, Alice>>,
      <<Hank, Gina, Frank, Erin, Dave, Carol, Bob, Alice>>,
      <<Alice, Bob, Carol, Dave, Erin, Frank, Gina, Hank, Ivan>> }

SeasonCourts == {1, 2}

InitSeason ==
    /\ \E players \in SeasonRosters, courts \in SeasonCourts :
          /\ ~InitFails(players, courts)
          /\ am = NewAmericano(players, courts)
    /\ store = NoFile
    /\ last = [op |-> "new"]
    /\ calls = <<>>
    /\ stale = FALSE
    /\ disciplined = TRUE
    /\ handlers = <<>>

\* games = am.next_round(), the round before it being recorded
SeasonNextRound ==
    /\ am.round_idx < MaxSeason
    /\ IF am.round_idx = 0 THEN TRUE ELSE calls[am.round_idx] = 1
    /\ \E res \in {NextRoundCall(am)} :
          /\ am' = res.am
          /\ last' = [op |-> "next_round", err |-> res.err, games |-> res.games]
    /\ calls' = Append(calls, 0)
    /\ UNCHANGED <<store, stale, disciplined, handlers>>

\* am.record_results(games, [text, ...]) on the games next_round returned
SeasonRecord(text) ==
    /\ IF am.round_idx >= 1 THEN calls[am.round_idx] = 0 ELSE FALSE
    /\ \E res \in {RecordResultsCall(am, am.round_idx,
                                     [i \in 1..Len(am.rounds[am.round_idx]) |-> text])} :
          /\ am' = res.am
          /\ last' = [op |-> "record_results", round |-> am.round_idx, err |-> res.err]
    /\ calls' = [calls EXCEPT ![am.round_idx] = 1]
    /\ UNCHANGED <<store, stale, disciplined, handlers>>

NextSeason == SeasonNextRound \/ \E text \in ValidTexts : SeasonRecord(text)

SpecSeason == InitSeason /\ [][NextSeason]_vars

---------------------------------------------------------------------------
(* Construction: Americano(players, courts) on rosters and court counts    *)
(* that pass or fail its checks, then the engine in use.                   *)

\* no Americano object: the constructor has not run, or it raised
NoEngine == [f \in {} |-> 0]

Constructed == DOMAIN am # {}

\* rosters of 0, 3, 4, 5, 7 and 8 players, the last of a repeated name
ConstructRosters ==
    { <<>>,
      <<Alice, Bob, Carol>>,
      <<Alice, Bob, Carol, Dave>>,
      <<Alice, Bob, Carol, Dave, Erin>>,
      <<Alice, Bob, Carol, Dave, Erin, Frank, Gina>>,
      <<al, al, al, al, al, al, al, al>> }

ConstructCourts == {-1, 0, 1, 2, 3}

InitConstruct ==
    /\ am = NoEngine
    /\ store = NoFile
    /\ last = [op |-> "start"]
    /\ calls = <<>>
    /\ stale = FALSE
    /\ disciplined = TRUE
    /\ handlers = <<>>

\* am = Americano(players, courts)
Construct(players, courts) ==
    /\ ~Constructed
    /\ last.op = "start"
    /\ IF InitFails(players, courts)
       THEN /\ am' = NoEngine
            /\ last' = [op |-> "new", players |-> players, courts |-> courts,
                        err |-> "ValueError"]
       ELSE /\ am' = NewAmericano(players, courts)
            /\ last' = [op |-> "new", players |-> players, courts |-> courts,
                        err |-> "none"]
    /\ UNCHANGED <<store, calls, stale, disciplined, handlers>>

NextConstruct ==
    \/ \E players \in ConstructRosters, courts \in ConstructCourts : Construct(players, courts)
    \/ Constructed /\ NextRound
    \/ Constructed /\ Restore
    \/ /\ Constructed
       /\ \E r \in 1..Len(am.rounds), scores \in ScoreLists : RecordResults(r, scores)

SpecConstruct == InitConstruct /\ [][NextConstruct]_vars

---------------------------------------------------------------------------
(* Restoring from records that are not the snapshot of an engine           *)

\* the fields Americano.from_dict reads with d[...]
RequiredFields ==
    { "players", "courts", "round_idx", "matches_played", "games_for",
      "games_against", "points", "last_round", "partner_count",
      "partner_last_round", "opponent_count", "opponent_last_round", "rounds" }

\* the record without field f
Drop(d, f) == [g \in DOMAIN d \ {f} |-> d[g]]

\* the ways a stored record may differ from the snapshot that was written
Tamperings ==
    { "intact", "no points", "no rounds", "round_idx off by one",
      "matches_played lacks a player", "three players" }

\* the record handed to from_dict: snapshot d changed in way k
Tamper(d, k) ==
    CASE k = "intact" -> d
      [] k = "no points" -> Drop(d, "points")
      [] k = "no rounds" -> Drop(d, "rounds")
      [] k = "round_idx off by one" -> [d EXCEPT !.round_idx = @ + 1]
      [] k = "matches_played lacks a player" ->
            [d EXCEPT !.matches_played = Drop(@, d.players[1])]
      [] k = "three players" -> [d EXCEPT !.players = SubSeq(@, 1, 3)]

\* Americano.from_dict(d): d[...] raises KeyError on a missing field, the
\* constructor raises ValueError; nothing else is checked
FromDictCall(d) ==
    IF ~(RequiredFields \subseteq DOMAIN d)
    THEN [engine |-> NoEngine, err |-> "KeyError"]
    ELSE IF InitFails(d.players, d.courts)
    THEN [engine |-> NoEngine, err |-> "ValueError"]
    ELSE [engine |-> FromDict(d), err |-> "none"]

\* Americano.from_dict(record), the record being am.to_dict() changed in way k
RestoreRecord(k) ==
    /\ \E res \in {FromDictCall(Tamper(ToDict(am), k))} :
          last' = [op |-> "from_dict", kind |-> k, engine |-> res.engine, err |-> res.err]
    /\ UNCHANGED <<am, store, calls, stale, disciplined, handlers>>

NextRestore == Next \/ \E k \in Tamperings : RestoreRecord(k)

SpecRestore == Init /\ [][NextRestore]_vars

---------------------------------------------------------------------------
(* The HTTP handlers of app/main.py on one tournament, one request at a    *)
(* time: each loads the tournament, works on its own engine and saves.     *)
(* calls, stale and disciplined observe direct engine calls only.          *)

\* Tournament.to_dict as written by Store.save
TournamentToDict(e) == [id |-> Tid, name |-> "cup", americano |-> ToDict(e)]

\* Store.save: the file of the tournament is written
Save(files, e) == Put(files, Tid, TournamentToDict(e))

\* os.path.exists(path) of Store.load
Exists(files) == Tid \in DOMAIN files

\* Store.load: Tournament.from_dict of the file; its engine
LoadAmericano(files) == FromDict(files[Tid].americano)

\* a truthiness test: a score of 0 counts as no score
AlreadyScoredTruthy(games) ==
    \E i \in 1..Len(games) :
        (games[i].scoreA # NoScore /\ games[i].scoreA # 0)
        \/ (games[i].scoreB # NoScore /\ games[i].scoreB # 0)

\* any((g.scoreA is not None or g.scoreB is not None) for g in games)
AlreadyScored(games) ==
    \E i \in 1..Len(games) : games[i].scoreA # NoScore \/ games[i].scoreB # NoScore

\* create_tournament has run: the new engine is saved
InitHttp ==
    /\ \E cfg \in Configs :
          /\ ~InitFails(cfg.players, cfg.courts)
          /\ am = NewAmericano(cfg.players, cfg.courts)
    /\ store = Save(NoFile, am)
    /\ last = [op |-> "create_tournament", status |-> 200]
    /\ calls = <<>>
    /\ stale = FALSE
    /\ disciplined = TRUE
    /\ handlers = <<>>

\* POST /tournaments/{tid}/rounds/next
HttpNextRound ==
    /\ Exists(store)
    /\ store[Tid].americano.round_idx < MaxRounds
    /\ \E res \in {NextRoundCall(LoadAmericano(store))} :
          /\ am' = res.am
          /\ IF res.err = "none"
             THEN /\ store' = Save(store, res.am)
                  /\ last' = [op |-> "http_next_round", status |-> 200, games |-> res.games]
             ELSE /\ store' = store
                  /\ last' = [op |-> "http_next_round", status |-> 500, games |-> <<>>]
    /\ UNCHANGED <<calls, stale, disciplined, handlers>>

\* the reply of post_scores
Reply(round_no, status) == [op |-> "post_scores", round_no |-> round_no, status |-> status]

\* a round behind the current one is let through
NotCurrentRoundOnlyAhead(e, round_no) == round_no > e.round_idx

\* the first check of post_scores: am.round_idx != round_no
NotCurrentRound(e, round_no) == e.round_idx # round_no

\* the tournament is saved whether record_results raised or not
StoreAfterScoresSavingAlways(files, res) == Save(files, res.am)

\* the end of post_scores: a ValueError of record_results is answered 400
\* before store.save(t) is reached
StoreAfterScores(files, res) ==
    IF res.err = "none" THEN Save(files, res.am) ELSE files

\* POST /tournaments/{tid}/rounds/{round_no}/scores
HttpPostScores(round_no, scores) ==
    /\ Exists(store)
    /\ \E e \in {LoadAmericano(store)} :
          IF NotCurrentRound(e, round_no)
          THEN am' = e /\ store' = store /\ last' = Reply(round_no, 409)
          ELSE IF round_no < 1 \/ round_no > Len(e.rounds)
          THEN am' = e /\ store' = store /\ last' = Reply(round_no, 404)
          ELSE IF AlreadyScored(e.rounds[round_no])
          THEN am' = e /\ store' = store /\ last' = Reply(round_no, 409)
          ELSE \E res \in {RecordResultsCall(e, round_no, scores)} :
                  /\ am' = res.am
                  /\ store' = StoreAfterScores(store, res)
                  /\ last' = Reply(round_no, IF res.err = "none" THEN 200 ELSE 400)
    /\ UNCHANGED <<calls, stale, disciplined, handlers>>

NextHttp ==
    \/ HttpNextRound
    \/ \E round_no \in 0..(MaxRounds + 1), scores \in ScoreLists :
          HttpPostScores(round_no, scores)

SpecHttp == InitHttp /\ [][NextHttp]_vars

---------------------------------------------------------------------------
(* The same handlers run at the same time (def handlers run in the thread  *)
(* pool): nothing in app/main.py or app/americano/store.py locks, so the   *)
(* store.load, the work on the loaded engine and the store.save of one     *)
(* request interleave with those of the others.                            *)

\* the requests sent: next_round, or post_scores for a round with one score
Requests ==
    {[op |-> "next_round", round_no |-> 0, scores |-> <<>>]}
    \cup {[op |-> "post_scores", round_no |-> r, scores |-> <<t>>] :
             r \in 1..2, t \in {<<54, 45, 51>>, <<115, 105, 120, 45, 51>>}}

\* a handler at its first line
Handler(req) ==
    [op |-> req.op, round_no |-> req.round_no, scores |-> req.scores,
     pc |-> "load", e |-> NoEngine, status |-> 0, games |-> <<>>]

InitConcurrent ==
    /\ am = NewAmericano(<<Alice, Bob, Carol, Dave>>, 1)
    /\ store = Save(NoFile, am)
    /\ last = [op |-> "create_tournament", status |-> 200]
    /\ calls = <<>>
    /\ stale = FALSE
    /\ disciplined = TRUE
    /\ handlers = <<>>

\* a request arrives and gets a handler
Arrive(req) ==
    /\ Len(handlers) < MaxRequests
    /\ handlers' = Append(handlers, Handler(req))
    /\ UNCHANGED <<am, store, last, calls, stale, disciplined>>

\* t = store.load(tid); am = t.americano
HandlerLoad(i) ==
    /\ handlers[i].pc = "load"
    /\ Exists(store)
    /\ handlers' = [handlers EXCEPT ![i].e = LoadAmericano(store), ![i].pc = "compute"]
    /\ UNCHANGED <<am, store, last, calls, stale, disciplined>>

\* next_round: matches = am.next_round()
\* post_scores: the checks and am.record_results(games, body.scores)
HandlerCompute(i) ==
    /\ handlers[i].pc = "compute"
    /\ LET h == handlers[i]
           rejected(status) == [h EXCEPT !.pc = "done", !.status = status]
       IN  IF h.op = "next_round"
           THEN \E res \in {NextRoundCall(h.e)} :
                   handlers' = [handlers EXCEPT ![i] =
                                   IF res.err = "none"
                                   THEN [h EXCEPT !.e = res.am, !.games = res.games,
                                                  !.pc = "save"]
                                   ELSE rejected(500)]
           ELSE IF NotCurrentRound(h.e, h.round_no)
           THEN handlers' = [handlers EXCEPT ![i] = rejected(409)]
           ELSE IF h.round_no < 1 \/ h.round_no > Len(h.e.rounds)
           THEN handlers' = [handlers EXCEPT ![i] = rejected(404)]
           ELSE IF AlreadyScored(h.e.rounds[h.round_no])
           THEN handlers' = [handlers EXCEPT ![i] = rejected(409)]
           ELSE \E res \in {RecordResultsCall(h.e, h.round_no, h.scores)} :
                   handlers' = [handlers EXCEPT ![i] =
                                   IF res.err = "none"
                                   THEN [h EXCEPT !.e = res.am, !.pc = "save"]
                                   ELSE rejected(400)]
    /\ UNCHANGED <<am, store, last, calls, stale, disciplined>>

\* store.save(t) and the 200 response
HandlerSave(i) ==
    /\ handlers[i].pc = "save"
    /\ store' = Save(store, handlers[i].e)
    /\ handlers' = [handlers EXCEPT ![i].pc = "done", ![i].status = 200]
    /\ UNCHANGED <<am, last, calls, stale, disciplined>>

NextConcurrent ==
    \/ \E req \in Requests : Arrive(req)
    \/ \E i \in 1..Len(handlers) : HandlerLoad(i)
    \/ \E i \in 1..Len(handlers) : HandlerCompute(i)
    \/ \E i \in 1..Len(handlers) : HandlerSave(i)

SpecConcurrent == InitConcurrent /\ [][NextConcurrent]_vars

---------------------------------------------------------------------------
(* The Team Balancer on its own: _best_split_of_four on any four players   *)
(* in any order, over pairing histories built by record_results on games   *)
(* the caller made up and by next_round.                                   *)

\* the 4-tuples of distinct roster players
FoursOf(e) ==
    {f \in [1..4 -> Range(e.players)] : \A i, j \in 1..4 : i # j => f[i] # f[j]}

\* Americano.record_results([g], [text]) on a Game that is in no round
RecordDetachedCall(e, g, text) ==
    LET ab == ParseScore(text)
    IN  IF ab = <<>> THEN [am |-> e, err |-> InvalidScore]
        ELSE [am |-> ApplyGame(e, [g EXCEPT !.scoreA = ab[1], !.scoreB = ab[2]]),
              err |-> "none"]

\* the balancer sees four players at a time: rosters of four, one with names
\* whose order changes under lower(), one with the key separator in names
BalancerConfigs ==
    { [players |-> <<cy, Bob, al, Di>>, courts |-> 1],
      [players |-> <<n_a, n_a_b, n_b_c, n_c>>, courts |-> 1] }

InitBalancer ==
    /\ \E cfg \in BalancerConfigs : am = NewAmericano(cfg.players, cfg.courts)
    /\ store = NoFile
    /\ last = [op |-> "new"]
    /\ calls = <<>>
    /\ stale = FALSE
    /\ disciplined = TRUE
    /\ handlers = <<>>

\* am.record_results([Game(1, (f1, f2), (f3, f4))], [" 0 : 0 "])
RecordDetached(four) ==
    /\ SumSeq(calls) + Len(am.rounds) < MaxHistory
    /\ LET res == RecordDetachedCall(am, Game(1, <<four[1], four[2]>>, <<four[3], four[4]>>),
                                     <<32, 48, 32, 58, 32, 48, 32>>)
       IN  am' = res.am
    /\ last' = [op |-> "record_detached"]
    /\ calls' = Append(calls, 1)
    /\ UNCHANGED <<store, stale, disciplined, handlers>>

\* am.next_round()
BalancerNextRound ==
    /\ SumSeq(calls) + Len(am.rounds) < MaxHistory
    /\ \E res \in {NextRoundCall(am)} :
          /\ am' = res.am
          /\ last' = [op |-> "next_round", err |-> res.err, games |-> res.games]
    /\ UNCHANGED <<store, calls, stale, disciplined, handlers>>

\* am._best_split_of_four(four)
Balance(four) ==
    /\ last' = [op |-> "best_split", four |-> four, split |-> BestSplitOfFour(am, four)]
    /\ UNCHANGED <<am, store, calls, stale, disciplined, handlers>>

NextBalancer ==
    \/ BalancerNextRound
    \/ \E four \in FoursOf(am) : RecordDetached(four)
    \/ \E four \in FoursOf(am) : Balance(four)

SpecBalancer == InitBalancer /\ [][NextBalancer]_vars

---------------------------------------------------------------------------
(* Vocabulary of the properties *)

Roster == Range(am.players)

UniqueRoster == Cardinality(Roster) = Len(am.players)

GamePlayers(g) == {g.teamA[1], g.teamA[2], g.teamB[1], g.teamB[2]}

RoundPlayers(games) == UNION {GamePlayers(games[i]) : i \in 1..Len(games)}

Min2(a, b) == IF a < b THEN a ELSE b

\* k = min(courts, floor(roster_size / 4))
CourtsUsed == Min2(am.courts, Len(am.players) \div 4)

WellFormedRound(games) ==
    /\ Len(games) = CourtsUsed
    /\ {games[i].court : i \in 1..Len(games)} = 1..CourtsUsed
    /\ \A i \in 1..Len(games) :
          /\ Cardinality(GamePlayers(games[i])) = 4
          /\ GamePlayers(games[i]) \subseteq Roster
    /\ \A i, j \in 1..Len(games) :
          i # j => GamePlayers(games[i]) \cap GamePlayers(games[j]) = {}

IsScored(g) == g.scoreA # NoScore

\* the <<round, court index>> positions of the scored games of the history
ScoredAt == {rc \in {<<r, i>> : r \in 1..Len(am.rounds), i \in 1..2} :
                rc[2] <= Len(am.rounds[rc[1]]) /\ IsScored(am.rounds[rc[1]][rc[2]])}

GameAt(rc) == am.rounds[rc[1]][rc[2]]

RECURSIVE SumOver(_, _)
SumOver(S, f) ==
    IF S = {} THEN 0
    ELSE LET x == CHOOSE y \in S : TRUE IN f[x] + SumOver(S \ {x}, f)

Team(t) == {t[1], t[2]}

OwnScore(g, p) == IF p \in Team(g.teamA) THEN g.scoreA ELSE g.scoreB
OtherScore(g, p) == IF p \in Team(g.teamA) THEN g.scoreB ELSE g.scoreA

GamesOf(p) == {rc \in ScoredAt : p \in GamePlayers(GameAt(rc))}

Teammates(g, p, q) == Team(g.teamA) = {p, q} \/ Team(g.teamB) = {p, q}

Opponents(g, p, q) ==
    \/ p \in Team(g.teamA) /\ q \in Team(g.teamB)
    \/ q \in Team(g.teamA) /\ p \in Team(g.teamB)

MaxOf(S) == CHOOSE x \in S : \A y \in S : y <= x
MinOf(S) == CHOOSE x \in S : \A y \in S : x <= y

Spread == MaxOf({am.matches_played[p] : p \in Roster})
          - MinOf({am.matches_played[p] : p \in Roster})

---------------------------------------------------------------------------
(* C1 *)

\* C1: for a roster of unique names every round produced by next_round() (the
\* one it returns and every round of the history) has exactly
\* k = min(courts, roster_size div 4) games on courts 1..k, each court once,
\* each game with 4 distinct roster players, and no player in two games.
C1_RoundsWellFormed ==
    UniqueRoster =>
        /\ \A r \in 1..Len(am.rounds) : WellFormedRound(am.rounds[r])
        /\ last.op = "next_round" => WellFormedRound(last.games)

\* a round of two games was produced after an earlier round was recorded
C1_Witness ==
    /\ last.op = "next_round"
    /\ Len(last.games) = 2
    /\ am.round_idx = 2
    /\ \E p \in Roster : am.matches_played[p] > 0

---------------------------------------------------------------------------
(* C2 *)

\* C2: a record_results call that fails on a malformed score leaves the
\* engine as it was: no game score, tally or pair counter differs from before
\* the call, also for the games that precede the malformed score.
C2_MalformedScoreMutatesNothing ==
    [][(last'.op = "record_results" /\ last'.err = InvalidScore) => am' = am]_vars

---------------------------------------------------------------------------
(* C4 *)

\* the counters recomputed from the scored games of the history
TalliesMatchHistory ==
    \A p \in Roster :
        /\ am.matches_played[p] = Cardinality(GamesOf(p))
        /\ am.games_for[p] = SumOver(GamesOf(p), [rc \in GamesOf(p) |-> OwnScore(GameAt(rc), p)])
        /\ am.points[p] = SumOver(GamesOf(p), [rc \in GamesOf(p) |-> OwnScore(GameAt(rc), p)])
        /\ am.games_against[p] =
              SumOver(GamesOf(p), [rc \in GamesOf(p) |-> OtherScore(GameAt(rc), p)])

PairCountsMatchHistory ==
    \A p, q \in Roster :
        p # q =>
            /\ Get(am.partner_count, PairKey(p, q), 0)
                  = Cardinality({rc \in ScoredAt : Teammates(GameAt(rc), p, q)})
            /\ Get(am.opponent_count, PairKey(p, q), 0)
                  = Cardinality({rc \in ScoredAt : Opponents(GameAt(rc), p, q)})

RecordedAtMostOnceWhileCurrent == ~stale /\ \A r \in 1..Len(calls) : calls[r] <= 1

\* C4: when each round was recorded at most once and while it was the current
\* round, every per-player counter and, for every unordered pair of players,
\* the partner and opponent counts equal the values recomputed from the scored
\* games of the round history.
C4_CountersMatchHistory ==
    RecordedAtMostOnceWhileCurrent => TalliesMatchHistory /\ PairCountsMatchHistory

---------------------------------------------------------------------------
(* C6 *)

\* C6: when every round is recorded before the next one is scheduled and at
\* most 4 * k players sit out a round, every player left out of round r plays
\* in round r + 1; with Alice..Frank on one court, Erin and Frank play round 2.
C6_BenchedPlayNext ==
    disciplined =>
        /\ Len(am.players) - 4 * CourtsUsed <= 4 * CourtsUsed =>
              \A r \in 1..(Len(am.rounds) - 1) :
                  Roster \ RoundPlayers(am.rounds[r]) \subseteq RoundPlayers(am.rounds[r + 1])
        /\ (am.players = <<Alice, Bob, Carol, Dave, Erin, Frank>> /\ am.courts = 1
              /\ Len(am.rounds) >= 2)
              => {Erin, Frank} \subseteq RoundPlayers(am.rounds[2])

\* Alice..Frank on one court: three rounds scheduled, each after the previous
\* one was recorded, and somebody sat out round 2
C6_Witness ==
    /\ disciplined
    /\ Len(am.players) = 6
    /\ Len(am.rounds) = 3
    /\ Roster \ RoundPlayers(am.rounds[2]) # {}

---------------------------------------------------------------------------
(* C7 *)

\* C7: with a roster of exactly courts * 4 players and every round recorded
\* before the next one is scheduled, max(matches_played) - min(matches_played)
\* is at most 1 in every state.
C7_NearEqualMatches ==
    (disciplined /\ Len(am.players) = 4 * am.courts) => Spread <= 1

\* 8 players on 2 courts after two recorded rounds
C7_Witness ==
    /\ disciplined
    /\ Len(am.players) = 8 /\ am.courts = 2
    /\ calls = <<1, 1>>
    /\ \A p \in Roster : am.matches_played[p] = 2

---------------------------------------------------------------------------
(* C10 *)

\* C10: next_round() leaves points, matches_played, games_for, games_against,
\* the four pair maps, the roster, the court count and every game of the
\* earlier rounds as they were.
C10_NextRoundFrame ==
    [][last'.op = "next_round" =>
          /\ am'.points = am.points
          /\ am'.matches_played = am.matches_played
          /\ am'.games_for = am.games_for
          /\ am'.games_against = am.games_against
          /\ am'.partner_count = am.partner_count
          /\ am'.partner_last_round = am.partner_last_round
          /\ am'.opponent_count = am.opponent_count
          /\ am'.opponent_last_round = am.opponent_last_round
          /\ am'.players = am.players
          /\ am'.courts = am.courts
          /\ SubSeq(am'.rounds, 1, Len(am.rounds)) = am.rounds]_vars

\* next_round was called on an engine that holds scored games and tallies
C10_Witness ==
    /\ last.op = "next_round"
    /\ am.round_idx >= 2
    /\ \E p \in Roster : am.points[p] > 0
    /\ am.partner_count # EmptyDict

---------------------------------------------------------------------------
(* C8 *)

PointsOf(row) == row[2]
MatchesOf(row) == row[3]
DiffOf(row) == row[4] - row[5]

\* row x may stand before row y under the ascending key
\* (-points, -(games_for - games_against), matches_played, lower-cased name)
MayPrecede(x, y) ==
    \/ PointsOf(x) > PointsOf(y)
    \/ PointsOf(x) = PointsOf(y) /\ DiffOf(x) > DiffOf(y)
    \/ PointsOf(x) = PointsOf(y) /\ DiffOf(x) = DiffOf(y) /\ MatchesOf(x) < MatchesOf(y)
    \/ /\ PointsOf(x) = PointsOf(y) /\ DiffOf(x) = DiffOf(y) /\ MatchesOf(x) = MatchesOf(y)
       /\ ~StrLess(Lower(y[1]), Lower(x[1]))

LeaderboardWellOrdered ==
    (last.op = "leaderboard" /\ UniqueRoster) =>
        /\ Len(last.rows) = Len(am.players)
        /\ \A p \in Roster : Cardinality({i \in 1..Len(last.rows) : last.rows[i][1] = p}) = 1
        /\ \A i \in 1..Len(last.rows) :
              LET p == last.rows[i][1]
              IN  last.rows[i] = << p, am.points[p], am.matches_played[p],
                                    am.games_for[p], am.games_against[p] >>
        /\ \A i, j \in 1..Len(last.rows) : i < j => MayPrecede(last.rows[i], last.rows[j])

\* C8: leaderboard() returns every roster player exactly once with the
\* player's tallies, rows ordered by more points, then higher goal difference,
\* then fewer matches played, then lower-cased name; the call changes no
\* engine state.
C8_Leaderboard ==
    /\ []LeaderboardWellOrdered
    /\ [][last'.op = "leaderboard" => am' = am]_vars

\* a leaderboard on which two players tie on points and goal difference and
\* the one with fewer matches stands first, another player having points
C8_Witness ==
    /\ last.op = "leaderboard"
    /\ \E i, j \in 1..Len(last.rows) :
          /\ i < j
          /\ PointsOf(last.rows[i]) = PointsOf(last.rows[j])
          /\ DiffOf(last.rows[i]) = DiffOf(last.rows[j])
          /\ MatchesOf(last.rows[i]) < MatchesOf(last.rows[j])
    /\ PointsOf(last.rows[1]) > 0

---------------------------------------------------------------------------
(* C3 *)

ObjectsOf(objs) == {objs[f] : f \in DOMAIN objs}

---------------------------------------------------------------------------
(* C5 *)

Persisted == store[Tid].americano

\* the games that have a score in snapshot d
ScoredIn(d) ==
    {rc \in {<<r, i>> : r \in 1..Len(d.rounds), i \in 1..2} :
        rc[2] <= Len(d.rounds[rc[1]])
        /\ (d.rounds[rc[1]][rc[2]].scoreA # NoScore \/ d.rounds[rc[1]][rc[2]].scoreB # NoScore)}

\* C5: through the HTTP layer a post_scores for a round that has a scored
\* game is answered 409 and changes nothing persisted; and in every step that
\* changes the persisted tournament a game that had a score keeps it and each
\* player's matches_played grows by exactly the number of the player's games
\* that got their score in this step, so no game is counted a second time.
C5_ScoresAppliedOnce ==
    [][ /\ (/\ last'.op = "post_scores"
            /\ \E rc \in ScoredIn(Persisted) : rc[1] = last'.round_no)
              => (last'.status = 409 /\ store' = store)
        /\ store' # store =>
              /\ \A rc \in ScoredIn(Persisted) :
                    Persisted'.rounds[rc[1]][rc[2]] = Persisted.rounds[rc[1]][rc[2]]
              /\ \A p \in Range(Persisted.players) :
                    Persisted'.matches_played[p] - Persisted.matches_played[p]
                       = Cardinality({rc \in ScoredIn(Persisted') \ ScoredIn(Persisted) :
                                        p \in GamePlayers(Persisted'.rounds[rc[1]][rc[2]])})
      ]_vars

\* a second post_scores for the current round, scored 0 : 0, was answered 409
C5_Witness ==
    /\ last.op = "post_scores"
    /\ last.status = 409
    /\ last.round_no = Persisted.round_idx
    /\ last.round_no >= 1
    /\ \A i \in 1..Len(Persisted.rounds[last.round_no]) :
          Persisted.rounds[last.round_no][i].scoreA = 0

---------------------------------------------------------------------------
(* C9 *)

\* 100 * (10 * partner count + 5 * partnered in the previous round
\*        + 1 * opponent count + 0.5 * opposed in the previous round
\*        + matches-played sum / 100)
PartnerCountOf(t) == Get(am.partner_count, PairKey(t[1], t[2]), 0)
PartneredLastRound(t) ==
    PairKey(t[1], t[2]) \in DOMAIN am.partner_last_round
    /\ am.partner_last_round[PairKey(t[1], t[2])] = am.round_idx - 1
CrossPairs(t1, t2) == {<<1, 1>>, <<1, 2>>, <<2, 1>>, <<2, 2>>}
OpposedLastRound(x, y) ==
    PairKey(x, y) \in DOMAIN am.opponent_last_round
    /\ am.opponent_last_round[PairKey(x, y)] = am.round_idx - 1
Penalty100(t1, t2) ==
    1000 * (PartnerCountOf(t1) + PartnerCountOf(t2))
    + 500 * (Bool01(PartneredLastRound(t1)) + Bool01(PartneredLastRound(t2)))
    + 100 * SumOver(CrossPairs(t1, t2),
                    [c \in CrossPairs(t1, t2) |->
                        Get(am.opponent_count, PairKey(t1[c[1]], t2[c[2]]), 0)])
    + 50 * Cardinality({c \in CrossPairs(t1, t2) : OpposedLastRound(t1[c[1]], t2[c[2]])})
    + SumOver({1, 2}, [i \in {1, 2} |-> am.matches_played[t1[i]] + am.matches_played[t2[i]]])

\* the two players of t in sorted (code point) order
Canonical(t) == CHOOSE u \in {<<t[1], t[2]>>, <<t[2], t[1]>>} : StrLeq(u[1], u[2])

\* C9: for any four distinct players (a, b, c, d) the balancer returns one of
\* ab|cd, ac|bd, ad|bc with each team in sorted order; its penalty is minimal
\* among the three and every split enumerated before it has a larger penalty.
C9_BestSplit ==
    last.op = "best_split" =>
        LET f == last.four
            cand == << << <<f[1], f[2]>>, <<f[3], f[4]>> >>,
                       << <<f[1], f[3]>>, <<f[2], f[4]>> >>,
                       << <<f[1], f[4]>>, <<f[2], f[3]>> >> >>
            pen(i) == Penalty100(cand[i][1], cand[i][2])
        IN  \E i \in 1..3 :
               /\ last.split = <<Canonical(cand[i][1]), Canonical(cand[i][2])>>
               /\ \A j \in 1..3 : pen(i) <= pen(j)
               /\ \A j \in 1..3 : j < i => pen(j) > pen(i)

\* with a pairing history, the first two splits tie for the minimum, the
\* first one is returned and its first team was put in sorted order
C9_Witness ==
    /\ last.op = "best_split"
    /\ last.split[1] # <<last.four[1], last.four[2]>>
    /\ am.partner_count # EmptyDict
    /\ Penalty100(<<last.four[1], last.four[2]>>, <<last.four[3], last.four[4]>>)
          = Penalty100(<<last.four[1], last.four[3]>>, <<last.four[2], last.four[4]>>)
    /\ Penalty100(<<last.four[1], last.four[4]>>, <<last.four[2], last.four[3]>>)
          > Penalty100(<<last.four[1], last.four[2]>>, <<last.four[3], last.four[4]>>)
    /\ Team(last.split[1]) = {last.four[1], last.four[2]}

---------------------------------------------------------------------------
(* C11 *)

\* the games of a round, scores aside (record_results writes the scores)
Fixtures(games) ==
    [i \in 1..Len(games) |-> <<games[i].court, games[i].teamA, games[i].teamB>>]

\* C11: in every state reached by next_round, record_results, leaderboard and
\* snapshot / restore calls in any order, round_idx equals the length of the
\* round history; it is 0 after construction, every next_round adds exactly 1
\* to it and no other call changes it; no call removes or reorders a round of
\* the history.
C11_RoundIndexIsHistoryLength ==
    /\ [](am.round_idx = Len(am.rounds))
    /\ [](last.op = "new" => am.round_idx = 0)
    /\ [][ /\ IF last'.op = "next_round"
              THEN am'.round_idx = am.round_idx + 1
              ELSE am'.round_idx = am.round_idx
           /\ Len(am'.rounds) >= Len(am.rounds)
           /\ \A r \in 1..Len(am.rounds) :
                 Fixtures(am'.rounds[r]) = Fixtures(am.rounds[r]) ]_vars

\* the engine was restored from its snapshot after several rounds, one of
\* them recorded
C11_Witness ==
    /\ last.op = "restore"
    /\ am.round_idx >= 2
    /\ ScoredAt # {}

---------------------------------------------------------------------------
(* C12 *)

\* C12: Americano(players, courts) raises, and gives no engine, exactly when
\* the roster has fewer than 4 players or courts < 1; on an engine it did
\* give, also after a restore from its snapshot, every next_round() returns
\* at least one game and never raises (so never after round_idx += 1).
C12_ConstructionGuardsScheduling ==
    /\ last.op = "new" =>
          /\ (last.err # "none") <=> (Len(last.players) < 4 \/ last.courts < 1)
          /\ (last.err # "none") <=> ~Constructed
    /\ last.op = "next_round" => (last.err = "none" /\ Len(last.games) >= 1)

\* five players and three courts: more courts than groups of four; the
\* second round was scheduled
C12_Witness ==
    /\ last.op = "next_round"
    /\ Len(am.players) = 5
    /\ am.courts = 3
    /\ am.round_idx = 2
    /\ Len(last.games) = 1

---------------------------------------------------------------------------
(* C13 *)

\* the per-player counter maps
CounterMaps == {"matches_played", "games_for", "games_against", "points", "last_round"}

\* a record with every required field and consistent shapes
WellShaped(d) ==
    /\ RequiredFields \subseteq DOMAIN d
    /\ Len(d.players) >= 4
    /\ d.courts >= 1
    /\ d.round_idx = Len(d.rounds)
    /\ \A f \in CounterMaps : DOMAIN d[f] = Range(d.players)

\* C13: from_dict raises and returns no engine for every record that lacks a
\* required field or has inconsistent shapes (round_idx different from the
\* number of stored rounds, a per-player counter map whose keys are not
\* exactly the roster); every engine it returns has round_idx = len(rounds)
\* and a counter entry for every roster player.
C13_MalformedSnapshotRejected ==
    last.op = "from_dict" =>
        /\ ~WellShaped(Tamper(ToDict(am), last.kind))
              => (last.err # "none" /\ DOMAIN last.engine = {})
        /\ last.err = "none" =>
              /\ last.engine.round_idx = Len(last.engine.rounds)
              /\ \A f \in CounterMaps :
                    DOMAIN last.engine[f] = Range(last.engine.players)

---------------------------------------------------------------------------
(* C14 *)

\* the place of p in the roster
IndexOf(e, p) == CHOOSE i \in 1..Len(e.players) : e.players[i] = p

\* p stands before q in the priority order of engine e: fewer matches played,
\* then the earlier last round, then the lower-cased name; players equal in
\* all three keep their roster order
Before(e, p, q) ==
    \/ e.matches_played[p] < e.matches_played[q]
    \/ /\ e.matches_played[p] = e.matches_played[q]
       /\ e.last_round[p] < e.last_round[q]
    \/ /\ e.matches_played[p] = e.matches_played[q]
       /\ e.last_round[p] = e.last_round[q]
       /\ StrLess(Lower(p), Lower(q))
    \/ /\ e.matches_played[p] = e.matches_played[q]
       /\ e.last_round[p] = e.last_round[q]
       /\ Lower(p) = Lower(q)
       /\ IndexOf(e, p) < IndexOf(e, q)

\* the position of p in that order, from 1
PositionOf(e, p) == 1 + Cardinality({q \in Range(e.players) : Before(e, q, p)})

\* C14: for a roster of unique names next_round() returns
\* min(courts, roster_size div 4) games, and the game on court c holds exactly
\* the players at positions 4(c-1)+1 .. 4c of the roster ordered, at the start
\* of the call, by ascending (matches_played, last round played, lower-cased
\* name); in round 1 of Alice..Frank on one court Alice, Bob, Carol and Dave
\* play.
C14_SelectionFollowsPriority ==
    [][(last'.op = "next_round" /\ UniqueRoster) =>
          /\ Len(last'.games) = CourtsUsed
          /\ \A c \in 1..Len(last'.games) :
                /\ last'.games[c].court = c
                /\ GamePlayers(last'.games[c])
                      = {p \in Roster : PositionOf(am, p) \in (4 * (c - 1) + 1)..(4 * c)}
          /\ (am.players = <<Alice, Bob, Carol, Dave, Erin, Frank>> /\ am.courts = 1
                /\ am.round_idx = 0)
                => GamePlayers(last'.games[1]) = {Alice, Bob, Carol, Dave} ]_vars

\* round 2 of Alice..Frank on one court after round 1 was recorded: Erin and
\* Frank, who sat out, come first and play with two who played
C14_Witness ==
    /\ last.op = "next_round"
    /\ am.players = <<Alice, Bob, Carol, Dave, Erin, Frank>>
    /\ am.round_idx = 2
    /\ am.matches_played[Alice] = 1
    /\ am.matches_played[Erin] = 0
    /\ {Erin, Frank} \subseteq GamePlayers(last.games[1])

---------------------------------------------------------------------------
(* C15 *)

\* the rounds of the history in which p is in a game
RoundsOf(p) == {r \in 1..Len(am.rounds) : p \in RoundPlayers(am.rounds[r])}

\* C15: last_round of every player is the index of the latest round of the
\* history with the player in a game, and is the sentinel -10 exactly for
\* the players who are in no round; record_results never changes last_round.
C15_LastRoundIsLatestAppearance ==
    /\ [](\A p \in Roster :
             /\ RoundsOf(p) # {} => am.last_round[p] = MaxOf(RoundsOf(p))
             /\ RoundsOf(p) = {} <=> am.last_round[p] = LastRoundInit)
    /\ [][last'.op = "record_results" => am'.last_round = am.last_round]_vars

\* after three rounds of a roster with a bench, somebody's latest round is
\* not the current one, and results were recorded
C15_Witness ==
    /\ am.round_idx = 3
    /\ \E p \in Roster : am.last_round[p] = 2
    /\ \E p \in Roster : am.last_round[p] = 3
    /\ last.op = "record_results"
    /\ last.err = "none"

---------------------------------------------------------------------------
(* C16 *)

\* C16: a post_scores request answered 400, 404 or 409 leaves the stored
\* tournament as it was: the file is unchanged and the next load gives the
\* engine it gave before the request, also when record_results had scored
\* games of the handler's own engine before it raised.
C16_RejectedRequestSavesNothing ==
    [][(last'.op = "post_scores" /\ last'.status # 200) =>
          /\ store' = store
          /\ LoadAmericano(store') = LoadAmericano(store) ]_vars

\* answered 400 for a malformed second score: the handler's engine has the
\* first game scored, the stored tournament has not
C16_Witness ==
    /\ last.op = "post_scores"
    /\ last.status = 400
    /\ Len(am.rounds[last.round_no]) = 2
    /\ am.rounds[last.round_no][1].scoreA # NoScore
    /\ Persisted.rounds[last.round_no][1].scoreA = NoScore
    /\ am # LoadAmericano(store)

---------------------------------------------------------------------------
(* C20 *)

\* the stored games of round r that have no score
UnscoredIn(d, r) ==
    {i \in 1..Len(d.rounds[r]) :
        d.rounds[r][i].scoreA = NoScore /\ d.rounds[r][i].scoreB = NoScore}

\* C20: through the HTTP layer post_scores is answered 200 only for
\* round_no = the stored round_idx, which is then >= 1; a game of a round
\* that is no longer the current one and has no score never gets one, and
\* matches_played of every player counts exactly the stored games with a
\* score the player is in, so such a round never reaches the tallies.
C20_ScoresOnlyForCurrentRound ==
    /\ [](\A p \in Range(Persisted.players) :
             Persisted.matches_played[p]
                = Cardinality({rc \in ScoredIn(Persisted) :
                                 p \in GamePlayers(Persisted.rounds[rc[1]][rc[2]])}))
    /\ [][ /\ (last'.op = "post_scores" /\ last'.status = 200)
                => (last'.round_no = Persisted.round_idx /\ Persisted.round_idx >= 1)
           /\ store' # store =>
                 \A r \in 1..(Persisted.round_idx - 1) :
                     UnscoredIn(Persisted, r) \subseteq UnscoredIn(Persisted', r) ]_vars

\* round 2 was scheduled while round 1 had no scores, round 2 was scored,
\* and scores sent for round 1 were then answered 409
C20_Witness ==
    /\ last.op = "post_scores"
    /\ last.round_no = 1
    /\ last.status = 409
    /\ Persisted.round_idx = 2
    /\ UnscoredIn(Persisted, 1) # {}
    /\ UnscoredIn(Persisted, 2) = {}

---------------------------------------------------------------------------
(* C17 *)

\* every round of the history was recorded
AllRecorded == \A r \in 1..Len(calls) : calls[r] = 1

\* C17: for any roster of 4 or more players and any number of courts, when
\* every round is recorded before the next one is scheduled,
\* max(matches_played) - min(matches_played) is at most 1 after every
\* recorded round.
C17_NearEqualMatchesAnyRoster ==
    AllRecorded => Spread <= 1

\* nine players on two courts after four recorded rounds: some have played
\* once more than others
C17_Witness ==
    /\ Len(am.players) = 9
    /\ am.courts = 2
    /\ AllRecorded
    /\ Len(calls) = 4
    /\ Spread = 1

---------------------------------------------------------------------------
(* C18 *)

\* how often p and q were team mates in the scored games of the history
TimesPartnered(p, q) == Cardinality({rc \in ScoredAt : Teammates(GameAt(rc), p, q)})

\* the unordered pairs of roster players
Pairs == {pq \in SUBSET Roster : Cardinality(pq) = 2}

\* the two teams of the game of round r, as a set of two sets of players
SplitOf(r) == {Team(am.rounds[r][1].teamA), Team(am.rounds[r][1].teamB)}

\* C18: with exactly 4 players on 1 court and every round recorded before
\* the next one is scheduled, after every recorded round the times-partnered
\* counts of any two of the 6 unordered pairs differ by at most 1: any three
\* consecutive rounds use three different team splits and no two consecutive
\* rounds have a team in common.
C18_PartnersRotate ==
    (Len(am.players) = 4 /\ am.courts = 1 /\ AllRecorded) =>
        /\ \A pq, rs \in Pairs :
              LET p == CHOOSE x \in pq : TRUE
                  q == CHOOSE x \in pq : x # p
                  r == CHOOSE x \in rs : TRUE
                  t == CHOOSE x \in rs : x # r
              IN  TimesPartnered(p, q) - TimesPartnered(r, t) \in {-1, 0, 1}
        /\ \A r \in 1..(Len(am.rounds) - 2) :
              Cardinality({SplitOf(r), SplitOf(r + 1), SplitOf(r + 2)}) = 3
        /\ \A r \in 1..(Len(am.rounds) - 1) : SplitOf(r) \cap SplitOf(r + 1) = {}

---------------------------------------------------------------------------
(* C19 *)

\* every request sent so far was answered
AllAnswered == \A i \in 1..Len(handlers) : handlers[i].pc = "done"

\* C19: whatever the interleaving of the load, compute and save steps of
\* next_round and post_scores requests on one tournament, once all of them
\* are answered the stored tournament holds every round a 200 response of
\* next_round returned and every score a 200 response of post_scores
\* accepted.
C19_NoAcknowledgedUpdateLost ==
    AllAnswered =>
        \A i \in 1..Len(handlers) :
            LET h == handlers[i]
            IN  h.status = 200 =>
                  IF h.op = "next_round"
                  THEN /\ h.e.round_idx <= Len(Persisted.rounds)
                       /\ Fixtures(Persisted.rounds[h.e.round_idx]) = Fixtures(h.games)
                  ELSE /\ h.round_no <= Len(Persisted.rounds)
                       /\ <<Persisted.rounds[h.round_no][1].scoreA,
                             Persisted.rounds[h.round_no][1].scoreB>>
                              = ParseScore(h.scores[1])

=============================================================================
